---- MODULE Spec2Model ----
\* Model of src/DataLoader.py: the DataLoader class that generates the
\* Custom_Timit corpus of merged wav files, loads it back from the generated
\* directory layout, or loads it from .npy snapshot files.
\*
\* A behaviour is one load_data call, a small state machine (pc), started on
\* a file system (source directories, generated layout, .npy files in the
\* working directory) as earlier calls may have left it. trace, pass and
\* at_call record what the call did and what it found; the code does not
\* read them.
EXTENDS Integers, Sequences, FiniteSets, TLC

\* ------------------------------------------------------------------ sizes

\* DataLoader.min_speakers (src/DataLoader.py:33).
min_speakers == 2

\* DataLoader.max_speakers is 20 in the source (src/DataLoader.py:34); the
\* model runs the same code with a smaller value so that every bucket and
\* every permutation can be enumerated.
max_speakers == 3

\* DataLoader.pad_to is sampled_at * 5 = 80000 in the source
\* (src/DataLoader.py:40); scaled down likewise.
pad_to == 2

\* Largest number of recordings in the train source directory.
MaxTrainFiles == 4

\* Largest number of recordings in the test source directory.
MaxTestFiles == 6

\* Longest source recording (number of samples).
MaxWaveLen == 3

Splits == {"train", "test"}

\* range(self.min_speakers, self.max_speakers + 1)
speaker_range == min_speakers .. max_speakers

\* ------------------------------------------------------- numpy / python

\* A zero-filled array of length n.
zeros(n) == [i \in 1 .. n |-> 0]

\* np.pad(x, (0, n)): n zeros appended on the right, nothing on the left.
np_pad(x, n) == x \o zeros(n)

\* Python slice seq[i:j] (0-based, end exclusive, clipped to the sequence).
slice(seq, i, j) ==
    LET hi == IF j < Len(seq) THEN j ELSE Len(seq)
    IN  IF i >= hi THEN << >> ELSE [p \in 1 .. (hi - i) |-> seq[i + p]]

\* Python max(a, b) on integers.
py_max(a, b) == IF a >= b THEN a ELSE b

RECURSIVE seq_sum(_)
\* Sum of the elements of one frame.
seq_sum(s) == IF s = << >> THEN 0 ELSE Head(s) + seq_sum(Tail(s))

\* len(max(partition, key=len)): the length of the longest member.
longest(partition) ==
    CHOOSE n \in {Len(partition[c]) : c \in DOMAIN partition} :
        \A c \in DOMAIN partition : Len(partition[c]) <= n

\* partition.T: k rows of equal length L become L frames of k values.
transpose(rows) ==
    IF rows = << >> THEN << >>
    ELSE [f \in 1 .. Len(rows[1]) |-> [c \in 1 .. Len(rows) |-> rows[c][f]]]

\* np.sum(record, axis=1): one value per frame, the sum over the channels.
\* numpy accumulates small integer types in the platform integer, so the sum
\* of at most max_speakers 16-bit samples does not wrap.
np_sum_axis1(record) == [f \in 1 .. Len(record) |-> seq_sum(record[f])]

\* All orderings of a list (the outcomes of random.shuffle).
random_shuffle(seq) ==
    {[i \in 1 .. Len(seq) |-> seq[p[i]]] : p \in Permutations(1 .. Len(seq))}

\* ------------------------------------------------------------ file system

\* The recording stored in the i-th file of a source directory. Recordings
\* differ in length, so that partitions mix short and long members and the
\* mixtures come out shorter than pad_to (train), longer than pad_to (train)
\* and exactly pad_to long (test).
Wave(s, i) ==
    IF s = "train"
    THEN (IF i % 2 = 1 THEN << 1 >> ELSE [j \in 1 .. MaxWaveLen |-> 2])
    ELSE (IF i % 2 = 1 THEN [j \in 1 .. pad_to |-> 3] ELSE << 1 >>)

\* The source directory of split s holding n recordings, in the order glob
\* returns them.
SrcDir(s, n) == [i \in 1 .. n |-> Wave(s, i)]

\* A directory that does not exist.
NoBucket == [exists |-> FALSE, files |-> << >>]

\* A destination directory that does not exist / exists without buckets.
DestDir(exists) == [exists |-> exists, buckets |-> [k \in speaker_range |-> NoBucket]]

\* The four snapshot files, in the order __load_from_file reads them.
sets == << "train_x", "train_y", "test_x", "test_y" >>

\* f'{set}.npy'
npy_name(set) == set \o ".npy"

\* A snapshot file that is absent / present with the array it stores.
NoNpy == [exists |-> FALSE, array |-> << >>]
Npy(a) == [exists |-> TRUE, array |-> a]

\* The (src_dir, dest_dir, shuffle) triples of __generate_datasets.
dirs == << [split |-> "train", shuffle |-> TRUE], [split |-> "test", shuffle |-> FALSE] >>

\* ------------------------------------------------------------------ state

VARIABLES
    src,             \* [split -> list of recordings]: train_src_dir, test_src_dir
    dest,            \* [split -> directory]: train_dest_dir, test_dest_dir
    npy,             \* [set name -> snapshot file] in the working directory
    load_from_file,  \* class attribute DataLoader.load_from_file
    save_to_file,    \* class attribute DataLoader.save_to_file
    attrs,           \* [set name -> array]: what setattr(self, set, ...) stored
    pc,              \* position of the running load_data call
    force_recreate,  \* argument of the running load_data call
    gen,             \* locals of __generate_datasets
    result,          \* what load_data returned or raised
    trace,           \* the operations the running call has performed, in order
    pass,            \* per split, what the generation pass of this call did
    at_call          \* the destination directories and snapshot files the call found

vars == << src, dest, npy, load_from_file, save_to_file, attrs, pc,
           force_recreate, gen, result, trace, pass, at_call >>

NoGen == [todo |-> << >>, split |-> "none", shuffle |-> FALSE, data |-> << >>,
          num_records_per_count |-> 0, i |-> 0, ret |-> "none"]

NoResult == [kind |-> "none"]

NoPass == [s \in Splits |->
             [ran |-> FALSE, files |-> 0, shuffles |-> 0,
              written |-> {}, sliced |-> << >>]]

\* ------------------------------------------------------------- generation

\* Variant: the division by the smallest speaker count instead of the largest.
num_records_per_count_min(files) == Len(files) \div min_speakers

\* len(files) // self.max_speakers
num_records_per_count(files) == Len(files) \div max_speakers

\* [train[i:i + num_speakers] for i in range(0, num_records * num_speakers, num_speakers)]
\* np.array(..) of recordings of different lengths is an array of arrays (the
\* numpy the code was written for), of equal lengths a matrix: either way a
\* list of num_speakers recordings.
partitions(train, num_speakers, num_records) ==
    [p \in 1 .. num_records |->
        slice(train, (p - 1) * num_speakers, (p - 1) * num_speakers + num_speakers)]

\* Variant: the zeros put in front of the recording instead of behind it.
pad_partition_left(partition) ==
    [c \in DOMAIN partition |->
        zeros(longest(partition) - Len(partition[c])) \o partition[c]]

\* [np.pad(x, (0, pad_to - len(x))) for x in partition], pad_to the longest member.
pad_partition(partition) ==
    [c \in DOMAIN partition |->
        np_pad(partition[c], longest(partition) - Len(partition[c]))]

\* What wavfile.write stores for one partition: partition.T of the padded partition.
mixture_file(partition) == transpose(pad_partition(partition))

\* Variant: the list is shuffled for the first bucket only.
create_shuffles_once(num_speakers, shuffle) == shuffle /\ num_speakers = min_speakers

\* The condition of "if shuffle:" in the call for bucket num_speakers.
create_shuffles(num_speakers, shuffle) == shuffle

\* The lists the call may go on with: random.shuffle(train) permutes in place.
shuffled(train, num_speakers, shuffle) ==
    IF create_shuffles(num_speakers, shuffle) THEN random_shuffle(train) ELSE {train}

\* max(partition, key=len) raises ValueError on an empty partition: the number
\* of partitions the loop writes before that happens.
writable(parts) ==
    IF \A p \in DOMAIN parts : parts[p] # << >> THEN Len(parts)
    ELSE (CHOOSE p \in DOMAIN parts :
             /\ parts[p] = << >>
             /\ \A q \in 1 .. (p - 1) : parts[q] # << >>) - 1

\* Variant: the bucket directory is emptied before the new files are written.
write_bucket_clean(bucket, parts, n) ==
    [exists |-> TRUE,
     files  |-> [idx \in 0 .. (n - 1) |-> mixture_file(parts[idx + 1])]]

\* Path(dest_dir).mkdir(parents=True, exist_ok=True) followed by the writes of
\* f'{dest_dir}/{i}.wav' for the first n partitions, opened with 'wb+': the
\* files already in the directory stay, those of the same index are replaced.
write_bucket(bucket, parts, n) ==
    [exists |-> TRUE,
     files  |-> [idx \in (DOMAIN bucket.files) \cup (0 .. (n - 1)) |->
                    IF idx < n THEN mixture_file(parts[idx + 1])
                    ELSE bucket.files[idx]]]

\* write_log('Generating data'); dirs = [...]  (entry of __generate_datasets)
enter_generate(ret, done) ==
    /\ gen' = [NoGen EXCEPT !.todo = dirs, !.ret = ret]
    /\ pass' = NoPass
    /\ trace' = Append(done, "generate")
    /\ pc' = "gen_split"

\* for (src_dir, dest_dir, shuffle) in dirs: files = glob.glob(...);
\* num_records_per_count = ...; data = [...]   (or the end of the loop)
__generate_datasets ==
    /\ pc = "gen_split"
    /\ IF gen.todo = << >>
       THEN /\ pc' = gen.ret
            /\ gen' = NoGen
            /\ pass' = pass
       ELSE LET d == Head(gen.todo)
                files == src[d.split]
            IN  /\ gen' = [gen EXCEPT !.todo = Tail(gen.todo),
                                      !.split = d.split,
                                      !.shuffle = d.shuffle,
                                      !.data = files,
                                      !.num_records_per_count = num_records_per_count(files),
                                      !.i = min_speakers]
                /\ pass' = [pass EXCEPT ![d.split].ran = TRUE,
                                        ![d.split].files = Len(files)]
                /\ pc' = "gen_bucket"
    /\ UNCHANGED << src, dest, npy, load_from_file, save_to_file, attrs,
                    force_recreate, result, trace, at_call >>

\* One call self.__create_concurrent_speakers(data, dest_dir, i, num_records_per_count, shuffle)
\* of the loop "for i in range(self.min_speakers, self.max_speakers + 1)".
__create_concurrent_speakers ==
    /\ pc = "gen_bucket"
    /\ LET num_speakers == gen.i
           s == gen.split
       IN  \E train \in shuffled(gen.data, num_speakers, gen.shuffle) :
             LET parts == partitions(train, num_speakers, gen.num_records_per_count)
                 n == writable(parts)
             IN  /\ dest' = [dest EXCEPT
                         ![s].exists = TRUE,
                         ![s].buckets[num_speakers] = write_bucket(@, parts, n)]
                 /\ gen' = [gen EXCEPT !.data = train, !.i = num_speakers + 1]
                 /\ pass' = [pass EXCEPT
                         ![s].shuffles = IF create_shuffles(num_speakers, gen.shuffle)
                                         THEN @ + 1 ELSE @,
                         ![s].written = @ \cup {<< num_speakers, idx >> : idx \in 0 .. (n - 1)},
                         ![s].sliced = @ @@ (num_speakers :> train)]
                 /\ IF n < Len(parts)
                    THEN /\ pc' = "raised"
                         /\ result' = [kind |-> "error", exc |-> "ValueError", arg |-> "max"]
                    ELSE /\ pc' = IF num_speakers + 1 > max_speakers
                                  THEN "gen_split" ELSE "gen_bucket"
                         /\ result' = result
    /\ UNCHANGED << src, npy, load_from_file, save_to_file, attrs,
                    force_recreate, trace, at_call >>

\* ----------------------------------------------------------------- loader

RECURSIVE ascending(_)
\* The elements of a finite set of numbers as a list, smallest first.
ascending(S) ==
    IF S = {} THEN << >>
    ELSE LET m == CHOOSE x \in S : \A y \in S : x <= y
         IN  << m >> \o ascending(S \ {m})

\* glob.glob(dir + '/*.wav'): the files of a bucket directory, none when the
\* directory does not exist. Each entry keeps the index it was read from.
glob_wav(bucket) ==
    IF bucket.exists
    THEN [j \in 1 .. Cardinality(DOMAIN bucket.files) |->
             [index |-> ascending(DOMAIN bucket.files)[j],
              record |-> bucket.files[ascending(DOMAIN bucket.files)[j]]]]
    ELSE << >>

\* current_x = [np.sum(record, axis=1) for (_, record) in [wavfile.read(wav) for wav in files]]
\* Each row remembers the file it was computed from.
current_x(dir, y) ==
    LET files == glob_wav(dir.buckets[y])
    IN  [j \in DOMAIN files |->
            [samples |-> np_sum_axis1(files[j].record),
             file |-> << y, files[j].index >>]]

\* current_y = [y] * len(current_x)
current_y(x, y) == [j \in DOMAIN x |-> y]

RECURSIVE extend_x(_, _)
\* train_x after the loop has run for y, y + 1, .., max_speakers.
extend_x(dir, y) ==
    IF y > max_speakers THEN << >>
    ELSE current_x(dir, y) \o extend_x(dir, y + 1)

RECURSIVE extend_y(_, _)
\* train_y after the loop has run for y, y + 1, .., max_speakers.
extend_y(dir, y) ==
    IF y > max_speakers THEN << >>
    ELSE current_y(current_x(dir, y), y) \o extend_y(dir, y + 1)

\* Variant: padded, but not cut off at pad_to.
pad_without_cut(x) == np_pad(x, py_max(pad_to - Len(x), 0))

\* np.pad(x, (0, max(self.pad_to - len(x), 0)))[:self.pad_to]
pad_and_cut(x) == slice(np_pad(x, py_max(pad_to - Len(x), 0)), 0, pad_to)

\* np.array([... for x in train_x])
pad_all(xs) == [j \in DOMAIN xs |-> [xs[j] EXCEPT !.samples = pad_and_cut(@)]]

\* Variant: features and labels shuffled separately.
shuffle_separately(x, y) ==
    {<< [j \in DOMAIN x |-> x[p[j]]], [j \in DOMAIN y |-> y[q[j]]] >> :
        p \in Permutations(DOMAIN x), q \in Permutations(DOMAIN y)}

\* sklearn.utils.shuffle(x, y): both arrays indexed by the same permutation.
sklearn_shuffle(x, y) ==
    {<< [j \in DOMAIN x |-> x[p[j]]], [j \in DOMAIN y |-> y[p[j]]] >> :
        p \in Permutations(DOMAIN x)}

\* np.save of the four arrays.
__save_to_file(train_x, train_y, test_x, test_y) ==
    [n \in DOMAIN npy |->
        CASE n = "train_x" -> Npy(train_x)
          [] n = "train_y" -> Npy(train_y)
          [] n = "test_x"  -> Npy(test_x)
          [] n = "test_y"  -> Npy(test_y)]

\* return self.__load_datasets()
__load_datasets ==
    /\ pc = "L75"
    /\ \E train \in sklearn_shuffle(pad_all(extend_x(dest["train"], min_speakers)),
                                    extend_y(dest["train"], min_speakers)),
          test \in sklearn_shuffle(pad_all(extend_x(dest["test"], min_speakers)),
                                   extend_y(dest["test"], min_speakers)) :
          /\ result' = [kind |-> "data", train_x |-> train[1], train_y |-> train[2],
                        test_x |-> test[1], test_y |-> test[2]]
          /\ IF save_to_file
             THEN /\ npy' = __save_to_file(train[1], train[2], test[1], test[2])
                  /\ trace' = trace \o << "load_datasets", "save_to_file" >>
             ELSE /\ npy' = npy
                  /\ trace' = Append(trace, "load_datasets")
    /\ pc' = "returned"
    /\ UNCHANGED << src, dest, load_from_file, save_to_file, attrs,
                    force_recreate, gen, pass, at_call >>

\* ---------------------------------------------------------------- snapshot

\* The names in sets whose file os.path.exists does not find.
missing(files) == {j \in DOMAIN sets : ~files[sets[j]].exists}

\* Variant: the loop never looks whether the file is there.
stops_at_never(files) == Len(sets) + 1

\* The position in sets at which the loop of __load_from_file stops: the first
\* missing file, or past the end when all four are there.
stops_at(files) ==
    IF missing(files) = {} THEN Len(sets) + 1
    ELSE CHOOSE j \in missing(files) : \A m \in missing(files) : j <= m

\* Variant: generation only when both destination directories are absent.
layout_absent_both == ~dest["train"].exists /\ ~dest["test"].exists

\* not os.path.exists(self.train_dest_dir) or not os.path.exists(self.test_dest_dir)
layout_absent == ~dest["train"].exists \/ ~dest["test"].exists

\* Variant: the snapshot is loaded only when force_recreate is not set.
loads_snapshot_unforced == load_from_file /\ ~force_recreate

\* Variant: the snapshot is loaded only when the generated layout is there.
loads_snapshot_if_layout == load_from_file /\ ~layout_absent

\* The condition of "if self.load_from_file:" in load_data.
loads_snapshot == load_from_file

\* return self.__load_from_file()
__load_from_file ==
    /\ pc = "L71"
    /\ loads_snapshot
    /\ LET stop == stops_at(npy)
       IN  /\ attrs' = [n \in (DOMAIN attrs) \cup {sets[j] : j \in 1 .. (stop - 1)} |->
                           IF \E j \in 1 .. (stop - 1) : sets[j] = n
                           THEN npy[n].array ELSE attrs[n]]
           /\ IF stop <= Len(sets)
              THEN /\ result' = [kind |-> "error", exc |-> "FileNotFoundError",
                                 arg |-> npy_name(sets[stop])]
                   /\ pc' = "raised"
              ELSE /\ result' = [kind |-> "data",
                                 train_x |-> npy["train_x"].array,
                                 train_y |-> npy["train_y"].array,
                                 test_x |-> npy["test_x"].array,
                                 test_y |-> npy["test_y"].array]
                   /\ pc' = "returned"
    /\ trace' = Append(trace, "load_from_file")
    /\ UNCHANGED << src, dest, npy, load_from_file, save_to_file,
                    force_recreate, gen, pass, at_call >>

\* ------------------------------------------------------------- load_data

\* A caller starts load_data(force_recreate).
load_data ==
    /\ pc = "idle"
    /\ force_recreate' \in BOOLEAN
    /\ pc' = "L69"
    /\ at_call' = [dest |-> dest, npy |-> npy]
    /\ UNCHANGED << src, dest, npy, load_from_file, save_to_file, attrs, gen,
                    result, trace, pass >>

\* if force_recreate: self.__generate_datasets()
if_force_recreate ==
    /\ pc = "L69"
    /\ IF force_recreate
       THEN enter_generate("L71", trace)
       ELSE /\ pc' = "L71"
            /\ UNCHANGED << gen, pass, trace >>
    /\ UNCHANGED << src, dest, npy, load_from_file, save_to_file, attrs,
                    force_recreate, result, at_call >>

\* The os.path.exists calls that condition makes: "or" skips the second
\* when the first operand is already true.
exists_calls ==
    IF ~dest["train"].exists THEN << "exists_train" >>
    ELSE << "exists_train", "exists_test" >>

\* if not os.path.exists(..) or not os.path.exists(..): self.__generate_datasets()
if_dest_absent ==
    /\ pc = "L71"
    /\ ~loads_snapshot
    /\ IF layout_absent
       THEN enter_generate("L75", trace \o exists_calls)
       ELSE /\ pc' = "L75"
            /\ trace' = trace \o exists_calls
            /\ UNCHANGED << gen, pass >>
    /\ UNCHANGED << src, dest, npy, load_from_file, save_to_file, attrs,
                    force_recreate, result, at_call >>

\* ------------------------------------------------------------ behaviours

\* The layout an earlier generation pass over the first n recordings of the
\* source directory of split s left behind.
generated(s, n) ==
    [exists |-> TRUE,
     buckets |-> [k \in speaker_range |->
        write_bucket(NoBucket,
                     partitions(SrcDir(s, n), k, num_records_per_count(SrcDir(s, n))),
                     num_records_per_count(SrcDir(s, n)))]]

\* The layout an earlier pass left behind when it was stopped after its first
\* bucket: the directories of the larger speaker counts do not exist.
interrupted(s, n) ==
    [generated(s, n) EXCEPT
        !.buckets = [k \in speaker_range |-> IF k = min_speakers THEN @[k] ELSE NoBucket]]

\* The states a destination directory is found in: absent, or left by an
\* earlier pass over max_speakers recordings, complete or interrupted.
Layouts(s) == {DestDir(FALSE), interrupted(s, max_speakers), generated(s, max_speakers)}

SetNames == {sets[j] : j \in DOMAIN sets}

\* What every behaviour starts from: a constructed DataLoader, no call running.
InitCall ==
    /\ attrs = << >>
    /\ pc = "idle"
    /\ force_recreate = FALSE
    /\ gen = NoGen
    /\ result = NoResult
    /\ trace = << >>
    /\ pass = NoPass
    /\ at_call = [dest |-> dest, npy |-> npy]

\* Orchestration: both flags either way, every subset of the snapshot files,
\* destination directories present or absent; a fixed corpus, enough for one
\* mixture per bucket in the split that is not shuffled.
InitOrchestration ==
    /\ load_from_file \in BOOLEAN
    /\ save_to_file \in BOOLEAN
    /\ src = [s \in Splits |-> IF s = "train" THEN SrcDir(s, 0) ELSE SrcDir(s, max_speakers)]
    /\ \E et \in BOOLEAN, ee \in BOOLEAN :
          dest = [s \in Splits |-> IF s = "train" THEN DestDir(et) ELSE DestDir(ee)]
    /\ \E present \in SUBSET SetNames :
          npy = [n \in SetNames |-> IF n \in present THEN Npy(<< >>) ELSE NoNpy]

\* Corpus: every size of one source directory while the other is empty (the
\* two splits are processed one after the other and share nothing), every
\* earlier layout, no snapshot files, save_to_file as the class sets it (False).
InitCorpus ==
    /\ load_from_file \in BOOLEAN
    /\ save_to_file = FALSE
    /\ \E nt \in 0 .. MaxTrainFiles, ne \in 0 .. MaxTestFiles :
          /\ nt = 0 \/ ne = 0
          /\ src = [s \in Splits |-> IF s = "train" THEN SrcDir(s, nt) ELSE SrcDir(s, ne)]
    /\ \E lt \in Layouts("train"), le \in Layouts("test") :
          dest = [s \in Splits |-> IF s = "train" THEN lt ELSE le]
    /\ npy = [n \in SetNames |-> NoNpy]

\* Regeneration: the test layout was left by a pass over twice as many
\* recordings as the source directory holds now.
InitRegeneration ==
    /\ load_from_file \in BOOLEAN
    /\ save_to_file = FALSE
    /\ src = [s \in Splits |-> IF s = "train" THEN SrcDir(s, 0) ELSE SrcDir(s, max_speakers)]
    /\ \E lt \in {DestDir(FALSE), generated("train", max_speakers)} :
          dest = [s \in Splits |->
                    IF s = "train" THEN lt ELSE generated(s, 2 * max_speakers)]
    /\ npy = [n \in SetNames |-> NoNpy]

Init == (InitOrchestration \/ InitCorpus \/ InitRegeneration) /\ InitCall

Next ==
    \/ load_data
    \/ if_force_recreate
    \/ __generate_datasets
    \/ __create_concurrent_speakers
    \/ __load_from_file
    \/ if_dest_absent
    \/ __load_datasets

Spec == Init /\ [][Next]_vars

\* ------------------------------------------------------------- properties

\* The operations a call has performed.
Events(t) == {t[i] : i \in DOMAIN t}

\* a happens somewhere before b.
Before(t, a, b) == \E i \in DOMAIN t, j \in DOMAIN t : i < j /\ t[i] = a /\ t[j] = b

\* load_data has returned or raised.
Finished == pc \in {"returned", "raised"}

\* load_data has returned the result of a Loader pass.
Loaded == pc = "returned" /\ "load_datasets" \in Events(trace)

\* The mixture files of a destination directory, as (bucket, index) pairs.
FilesIn(dir) ==
    UNION {{<< k, idx >> : idx \in DOMAIN dir.buckets[k].files} : k \in speaker_range}

\* The generation pass of this call has gone through all buckets of split s.
SplitDone(s) == pass[s].ran /\ ~(pc = "gen_bucket" /\ gen.split = s)

\* The features / labels a Loader pass returned for split s.
X(s) == IF s = "train" THEN result.train_x ELSE result.test_x
Y(s) == IF s = "train" THEN result.train_y ELSE result.test_y

\* How often w occurs in the list t.
Count(t, w) == Cardinality({i \in DOMAIN t : t[i] = w})

\* a and b hold the same recordings, in some order.
IsPermutation(a, b) ==
    /\ Len(a) = Len(b)
    /\ \A i \in DOMAIN a : Count(a, a[i]) = Count(b, a[i])

\* C1, as stated: whenever force_recreate is set the call generates and then
\* ends in a Loader pass, whatever load_from_file is; the snapshot load is
\* attempted only when force_recreate is not set.
C1_StrictPrecedence ==
    (Finished /\ force_recreate) =>
        /\ trace[1] = "generate"
        /\ "load_datasets" \in Events(trace)
        /\ "load_from_file" \notin Events(trace)

\* C1, amended: force_recreate makes the call generate both splits first; after
\* that, as without force_recreate, the snapshot load is what the call ends in
\* exactly when load_from_file is set (no existence check, no Loader pass), and
\* a Loader pass is what it ends in exactly when load_from_file is not set.
C1_Precedence ==
    Finished =>
        /\ force_recreate =>
              trace[1] = "generate" /\ pass["train"].ran /\ pass["test"].ran
        /\ load_from_file =>
              trace = (IF force_recreate THEN << "generate" >> ELSE << >>)
                         \o << "load_from_file" >>
        /\ ~load_from_file =>
              /\ "load_from_file" \notin Events(trace)
              /\ pc = "returned"
              /\ "load_datasets" \in Events(trace)
              /\ (force_recreate => Before(trace, "generate", "load_datasets"))

\* A forced call with load_from_file set: generation, then the snapshot load.
C1_Witness ==
    /\ Finished
    /\ force_recreate
    /\ load_from_file
    /\ trace = << "generate", "load_from_file" >>
    /\ pass["train"].ran
    /\ pass["test"].ran

\* C2: when the snapshot load runs and one of the four .npy files is absent,
\* the call raises an error that names an absent file, returns no dataset, and
\* does nothing after the snapshot load: no generation, no Loader pass.
C2_MissingSnapshotRaises ==
    ("load_from_file" \in Events(trace) /\ \E n \in DOMAIN npy : ~npy[n].exists) =>
        /\ pc = "raised"
        /\ result.kind = "error"
        /\ result.exc = "FileNotFoundError"
        /\ \E n \in DOMAIN npy : ~npy[n].exists /\ result.arg = n \o ".npy"
        /\ trace[Len(trace)] = "load_from_file"
        /\ "load_datasets" \notin Events(trace)
        /\ ~ENABLED Next

\* Only the train artifacts are there: the error names test_x.npy.
C2_Witness ==
    /\ pc = "raised"
    /\ npy["train_x"].exists
    /\ npy["train_y"].exists
    /\ ~npy["test_x"].exists
    /\ ~npy["test_y"].exists
    /\ result.kind = "error"
    /\ result.arg = "test_x.npy"

\* C3: with load_from_file set and force_recreate not, the call makes no
\* existence check on the destination directories, runs no generation and no
\* Loader pass, and leaves the generated layout and the snapshot files as they were.
C3_SnapshotPathIgnoresLayout ==
    (pc # "idle" /\ load_from_file /\ ~force_recreate) =>
        /\ Events(trace) \subseteq {"load_from_file"}
        /\ \A s \in Splits : ~pass[s].ran
        /\ dest = at_call.dest
        /\ npy = at_call.npy

\* The snapshot is returned although a destination directory is absent.
C3_Witness ==
    /\ pc = "returned"
    /\ load_from_file
    /\ ~force_recreate
    /\ trace = << "load_from_file" >>
    /\ ~dest["train"].exists
    /\ dest["test"].exists

\* C4: with force_recreate and load_from_file both unset, the call generates
\* (before the Loader pass) if and only if the train or the test destination
\* directory was absent; when both existed it goes straight to the Loader pass
\* and writes no mixture file.
C4_GenerateIffAbsent ==
    (Finished /\ ~force_recreate /\ ~load_from_file) =>
        /\ "load_datasets" \in Events(trace)
        /\ ("generate" \in Events(trace)) <=>
              (~at_call.dest["train"].exists \/ ~at_call.dest["test"].exists)
        /\ "generate" \in Events(trace) => Before(trace, "generate", "load_datasets")
        /\ (at_call.dest["train"].exists /\ at_call.dest["test"].exists) =>
              /\ trace[3] = "load_datasets"
              /\ dest = at_call.dest
              /\ \A s \in Splits : pass[s].written = {} /\ ~pass[s].ran

\* Only the test directory was absent, and the call generated.
C4_Witness ==
    /\ Finished
    /\ ~force_recreate
    /\ ~load_from_file
    /\ at_call.dest["train"].exists
    /\ ~at_call.dest["test"].exists
    /\ Before(trace, "generate", "load_datasets")

\* The (bucket, index) pairs a pass over n recordings is to write.
Quota(n) ==
    {<< k, idx >> : k \in speaker_range, idx \in 0 .. ((n \div max_speakers) - 1)}

\* C5: a generation pass over a split with N recordings writes, for every k in
\* [min_speakers, max_speakers], exactly N // max_speakers mixture files into
\* bucket k, at the indices 0 .. N // max_speakers - 1; with N < max_speakers it
\* writes none and raises no error.
C5_FilesPerBucket ==
    \A s \in Splits :
        pass[s].ran =>
            /\ pass[s].files = Len(src[s])
            /\ pass[s].written \subseteq Quota(Len(src[s]))
            /\ ~(result.kind = "error" /\ result.exc = "ValueError")
            /\ SplitDone(s) =>
                  /\ pass[s].written = Quota(Len(src[s]))
                  /\ Quota(Len(src[s])) \subseteq FilesIn(dest[s])
                  /\ \A k \in speaker_range : dest[s].buckets[k].exists
                  /\ Len(src[s]) < max_speakers => pass[s].written = {}

\* A finished pass that wrote two files into every bucket of the test split.
C5_Witness ==
    /\ SplitDone("test")
    /\ Len(src["test"]) \div max_speakers = 2
    /\ \A k \in speaker_range : << k, 1 >> \in pass["test"].written

\* C6: every mixture file written for bucket k has exactly k channels, taken
\* from k recordings that all lie inside the recording sequence, and all of
\* its channels are as long as the longest of them, the shorter recordings
\* being followed by zeros.
C6_ChannelsAndPadding ==
    \A s \in Splits : \A w \in pass[s].written :
        LET k == w[1]
            train == pass[s].sliced[k]
            file == dest[s].buckets[k].files[w[2]]
            first == w[2] * k
        IN  /\ first + k <= Len(train)
            /\ \A c \in 1 .. k : Len(train[first + c]) <= Len(file)
            /\ \E c \in 1 .. k : Len(train[first + c]) = Len(file)
            /\ \A f \in 1 .. Len(file) :
                  /\ Len(file[f]) = k
                  /\ \A c \in 1 .. k :
                        file[f][c] = IF f <= Len(train[first + c])
                                     THEN train[first + c][f] ELSE 0

\* A written file in which a short recording was extended with zeros.
C6_Witness ==
    \E w \in pass["train"].written :
        LET file == dest["train"].buckets[w[1]].files[w[2]]
        IN  /\ Len(file) = MaxWaveLen
            /\ \E c \in 1 .. w[1] : file[Len(file)][c] = 0
            /\ \E c \in 1 .. w[1] : file[Len(file)][c] # 0

\* C7, as stated: the buckets of one pass are all sliced from the same
\* permutation of the recordings.
C7_SamePermutation ==
    \A s \in Splits :
        \A k1 \in DOMAIN pass[s].sliced, k2 \in DOMAIN pass[s].sliced :
            pass[s].sliced[k1] = pass[s].sliced[k2]

\* C7, amended: when shuffling is requested for a split (train) the recording
\* list is permuted once for every bucket, right before that bucket is sliced,
\* max_speakers - min_speakers + 1 times in a pass; every bucket is sliced from
\* a permutation of the same recordings, but not from one shared permutation.
\* The split for which no shuffling is requested (test) is sliced as it was read.
C7_ShuffledPerBucket ==
    \A s \in Splits :
        pass[s].ran =>
            /\ pass[s].shuffles =
                  IF s = "train" THEN Cardinality(DOMAIN pass[s].sliced) ELSE 0
            /\ \A k \in DOMAIN pass[s].sliced : IsPermutation(pass[s].sliced[k], src[s])
            /\ s = "test" => \A k \in DOMAIN pass[s].sliced : pass[s].sliced[k] = src[s]
            /\ SplitDone(s) =>
                  /\ DOMAIN pass[s].sliced = speaker_range
                  /\ s = "train" => pass[s].shuffles = max_speakers - min_speakers + 1

\* A finished train pass whose first and last bucket were sliced from
\* different orders of the recordings.
C7_Witness ==
    /\ SplitDone("train")
    /\ pass["train"].shuffles = max_speakers - min_speakers + 1
    /\ pass["train"].sliced[min_speakers] # pass["train"].sliced[max_speakers]

\* C8: a Loader pass returns one sample per mixture file under the bucket
\* directories of a split, labelled after the shuffle with the speaker count
\* of the bucket the file lies in; a bucket directory that does not exist
\* contributes nothing and the other buckets are still loaded. Generating into
\* an empty layout and loading gives (N // max_speakers) * (max_speakers -
\* min_speakers + 1) samples.
C8_OneSamplePerFile ==
    Loaded =>
        \A s \in Splits :
            /\ Len(X(s)) = Cardinality(FilesIn(dest[s]))
            /\ Len(Y(s)) = Len(X(s))
            /\ {X(s)[j].file : j \in DOMAIN X(s)} = FilesIn(dest[s])
            /\ \A j \in DOMAIN X(s) : Y(s)[j] = X(s)[j].file[1]
            /\ (pass[s].ran /\ FilesIn(at_call.dest[s]) = {}) =>
                  Len(X(s)) = (Len(src[s]) \div max_speakers)
                                 * (max_speakers - min_speakers + 1)

\* A Loader pass over a layout in which the directory of the largest speaker
\* count is missing and the one of the smallest holds a file.
C8_Witness ==
    /\ Loaded
    /\ ~dest["train"].buckets[max_speakers].exists
    /\ Len(X("train")) > 0
    /\ \A j \in DOMAIN X("train") : Y("train")[j] = min_speakers

\* C9: every sample a Loader pass returns is pad_to long: the channel sums of
\* its mixture file, followed by zeros when the mixture is shorter than
\* pad_to, cut off after pad_to values when it is longer.
C9_PadToExactly ==
    Loaded =>
        \A s \in Splits : \A j \in DOMAIN X(s) :
            LET row == X(s)[j]
                file == dest[s].buckets[row.file[1]].files[row.file[2]]
            IN  /\ Len(row.samples) = pad_to
                /\ \A f \in 1 .. pad_to :
                      row.samples[f] = IF f <= Len(file) THEN seq_sum(file[f]) ELSE 0

\* One Loader pass that returns a padded sample and a truncated one.
C9_Witness ==
    /\ Loaded
    /\ \E j \in DOMAIN X("train") :
          LET row == X("train")[j]
          IN  /\ Len(dest["train"].buckets[row.file[1]].files[row.file[2]]) < pad_to
              /\ row.samples[pad_to] = 0
    /\ \E j \in DOMAIN X("train") :
          LET row == X("train")[j]
          IN  /\ Len(dest["train"].buckets[row.file[1]].files[row.file[2]]) > pad_to
              /\ row.samples[pad_to] # 0

\* C10: a generation pass writes the files of index 0 .. N // max_speakers - 1
\* of every bucket and nothing else; every mixture file that was there before
\* the call is still there, unchanged unless the pass wrote that index, and a
\* Loader pass that follows returns the files earlier passes left behind.
C10_OverwriteByIndex ==
    \A s \in Splits :
        /\ FilesIn(dest[s]) = FilesIn(at_call.dest[s]) \cup pass[s].written
        /\ \A w \in FilesIn(at_call.dest[s]) \ pass[s].written :
              dest[s].buckets[w[1]].files[w[2]] = at_call.dest[s].buckets[w[1]].files[w[2]]
        /\ SplitDone(s) =>
              pass[s].written =
                 {<< k, idx >> \in speaker_range \X (0 .. Len(src[s])) :
                     idx < Len(src[s]) \div max_speakers}
        /\ Loaded =>
              \A w \in FilesIn(at_call.dest[s]) : \E j \in DOMAIN X(s) : X(s)[j].file = w

\* A pass over fewer recordings than the pass before it: in every test bucket
\* it wrote over file 0 and left file 1, which the Loader then returns; the
\* train buckets, for which it had no recordings, keep their file 0.
C10_Witness ==
    /\ Loaded
    /\ pass["train"].ran
    /\ pass["test"].ran
    /\ \A k \in speaker_range :
          /\ << k, 0 >> \in pass["test"].written
          /\ << k, 1 >> \in FilesIn(at_call.dest["test"]) \ pass["test"].written
          /\ \E j \in DOMAIN X("test") : X("test")[j].file = << k, 1 >>
          /\ << k, 0 >> \in FilesIn(at_call.dest["train"]) \ pass["train"].written
          /\ \E j \in DOMAIN X("train") : X("train")[j].file = << k, 0 >>

====
